---- MODULE Spec2Model ----
(***************************************************************************)
(* Clock/reset generator (_CRG) of the ECP5 Mini LiteX SoC.                *)
(*                                                                         *)
(* Everything is clocked by clk16 (clock domain "por").  The registers are *)
(* por_count (12 bits, power-on reset countdown) and count (the counter of *)
(* the WaitTimer instance reset_timer, migen.genlib.misc.WaitTimer, which  *)
(* counts down from t while wait is high and reloads t when wait is low).  *)
(* The inputs are the usr_btn pin (local name rst_n, low while the button  *)
(* is pressed) and the soft reset request self.rst.  They are asynchronous *)
(* levels: they may change any number of times between two clock edges.    *)
(* All other signals are combinational functions of registers and inputs.  *)
(* Signals are modelled as the integers 0 and 1.                           *)
(*                                                                         *)
(* The WaitTimer duration int(16e6) is scaled down: t is drawn from        *)
(* 1..MaxT at power-up and never changes.  The usr_btn resource exists on  *)
(* this platform, so the "rst_n is None" branch is not taken.              *)
(***************************************************************************)
EXTENDS Integers, Naturals, Sequences, FiniteSets, TLC

\* width of por_count
PorBits == 12
\* reset value of por_count
PorReset == 2^PorBits - 1
\* largest WaitTimer duration explored (the board uses int(16e6))
MaxT == 6
\* length of the earlier, interrupted hold whose loss is observed
PriorHold == 5

\* saturation point of the observer counters
TickCap == PorReset + 1
HeldCap == MaxT + 1

VARIABLES
    por_count,   \* register: Signal(12, reset=2**12-1)
    count,       \* register: counter of reset_timer
    t,           \* duration the WaitTimer was built with
    rst_n,       \* input: usr_btn pin, 0 while the button is pressed
    rst,         \* input: self.rst
    ticks,       \* observer: clk16 edges since power-up (saturating)
    held,        \* observer: consecutive latest edges that sampled the button pressed
    prior,       \* observer: the hold ended by the latest release edge lasted >= PriorHold edges
    calm,        \* observer: consecutive latest edges that sampled por_done = 1 and rst = 0
    pll_log      \* observer: pll.reset as sampled at the latest edges, oldest first

vars == <<por_count, count, t, rst_n, rst, ticks, held, prior, calm, pll_log>>

Bit == {0, 1}

\* ---- one-bit operators of the comb statements ----
Inv(a) == 1 - a

BitOr(a, b) == IF a = 1 \/ b = 1 THEN 1 ELSE 0

\* migen bits_for(n) for n > 0: the least r with 2^r >= n + 1
RECURSIVE BitsUpFrom(_, _)
BitsUpFrom(n, r) == IF 2^r >= n + 1 THEN r ELSE BitsUpFrom(n, r + 1)

bits_for(n) == BitsUpFrom(n, 0)

\* ---- combinational signals ----
\* por_done.eq(por_count == 0)
por_done == IF por_count = 0 THEN 1 ELSE 0

\* pll.reset.eq(~por_done | ~rst_n | self.rst)
pll_reset_m1 == BitOr(Inv(por_done), rst)

pll_reset_m2 == BitOr(Inv(por_done), Inv(rst_n))

pll_reset_m3 == BitOr(BitOr(Inv(por_done), rst_n), rst)

pll_reset == BitOr(BitOr(Inv(por_done), Inv(rst_n)), rst)

\* usb_pll.reset.eq(~por_done)
usb_pll_reset_m == BitOr(BitOr(Inv(por_done), Inv(rst_n)), rst)

usb_pll_reset == Inv(por_done)

\* reset_timer.wait.eq(~rst_n)
reset_timer_wait_m == rst_n

reset_timer_wait == Inv(rst_n)

\* WaitTimer: done.eq(count == 0)
reset_timer_done == IF count = 0 THEN 1 ELSE 0

\* platform.request("rst_n").eq(~reset_timer.done)
rst_n_pin_m == reset_timer_done

rst_n_pin == Inv(reset_timer_done)

\* ---- clocked statements ----
\* self.sync.por += If(~por_done, por_count.eq(por_count - 1))
PorNext_m == (por_count - 1) % 2^PorBits

PorNext_m2 == IF por_done = 1 THEN (por_count - 1) % 2^PorBits ELSE por_count

PorNext == IF Inv(por_done) = 1 THEN (por_count - 1) % 2^PorBits ELSE por_count

\* WaitTimer in domain por:
\*   If(wait, If(~done, count.eq(count - 1))).Else(count.eq(count.reset))
TimerNext_m == IF reset_timer_wait = 1
               THEN IF Inv(reset_timer_done) = 1
                    THEN (count - 1) % 2^bits_for(t) ELSE count
               ELSE count

TimerNext == IF reset_timer_wait = 1
             THEN IF Inv(reset_timer_done) = 1
                  THEN (count - 1) % 2^bits_for(t) ELSE count
             ELSE t

Min(a, b) == IF a < b THEN a ELSE b

Append1(s, x) == IF Len(s) < MaxT THEN Append(s, x) ELSE Append(Tail(s), x)

\* ---- state machine ----
Init ==
    /\ t \in 1..MaxT
    /\ por_count = PorReset
    /\ count = t
    /\ rst_n \in Bit
    /\ rst \in Bit
    /\ ticks = 0
    /\ held = 0
    /\ prior = FALSE
    /\ calm = 0
    /\ pll_log = <<>>

\* one rising edge of clk16: both registers load their next value
ClkEdge ==
    /\ por_count' = PorNext
    /\ count' = TimerNext
    /\ ticks' = Min(ticks + 1, TickCap)
    /\ held' = IF rst_n = 0 THEN Min(held + 1, HeldCap) ELSE 0
    /\ prior' = IF rst_n = 0 THEN prior ELSE (held >= PriorHold)
    /\ calm' = IF por_done = 1 /\ rst = 0 THEN Min(calm + 1, MaxT) ELSE 0
    /\ pll_log' = Append1(pll_log, pll_reset)
    /\ UNCHANGED <<t, rst_n, rst>>

\* the user button goes down / comes up between clock edges
ButtonPress ==
    /\ rst_n = 1
    /\ rst_n' = 0
    /\ UNCHANGED <<por_count, count, t, rst, ticks, held, prior, calm, pll_log>>

ButtonRelease ==
    /\ rst_n = 0
    /\ rst_n' = 1
    /\ UNCHANGED <<por_count, count, t, rst, ticks, held, prior, calm, pll_log>>

\* the soft reset request self.rst is raised / dropped
RstAssert ==
    /\ rst = 0
    /\ rst' = 1
    /\ UNCHANGED <<por_count, count, t, rst_n, ticks, held, prior, calm, pll_log>>

RstDeassert ==
    /\ rst = 1
    /\ rst' = 0
    /\ UNCHANGED <<por_count, count, t, rst_n, ticks, held, prior, calm, pll_log>>

Next == ClkEdge \/ ButtonPress \/ ButtonRelease \/ RstAssert \/ RstDeassert

Spec == Init /\ [][Next]_vars

TypeOK ==
    /\ t \in 1..MaxT
    /\ por_count \in 0..PorReset
    /\ count \in 0..t
    /\ rst_n \in Bit /\ rst \in Bit
    /\ ticks \in 0..TickCap
    /\ held \in 0..HeldCap
    /\ prior \in BOOLEAN
    /\ calm \in 0..MaxT
    /\ Len(pll_log) <= MaxT

\* the pll.reset samples of the four latest clock edges, oldest first
Last4(s) == SubSeq(s, Len(s) - 3, Len(s))

\* scenario B has just happened: a WaitTimer of 4 ticks, the four latest
\* edges (and only those) sampled the button pressed, and at each of them
\* the power-on reset was over and self.rst was low
ScenarioB == t = 4 /\ held = 4 /\ calm >= 4 /\ Len(pll_log) >= 4

\* ---- C1 ----
\* C1: in every reachable state pll.reset is 1 exactly when por_done is 0,
\* or the button is pressed (rst_n = 0), or self.rst is 1, computed from the
\* current values only; so it is 1 whenever the power-on reset is not over
\* and 1 whenever self.rst is 1.
C1_PllResetComb ==
    /\ (pll_reset = 1) <=> (por_count # 0 \/ rst_n = 0 \/ rst = 1)
    /\ (por_count # 0 => pll_reset = 1)
    /\ (rst = 1 => pll_reset = 1)

C1_Witness ==
    por_count = 0 /\ rst_n = 1 /\ rst = 1 /\ pll_reset = 1 /\ ticks >= PorReset

\* ---- C2 ----
\* C2: por_done is 0 until exactly PorReset (2^12 - 1) clock edges have
\* passed since power-up and 1 from then on, whatever the button and
\* self.rst do.
C2_PorReady ==
    /\ (ticks < PorReset => por_done = 0)
    /\ (ticks >= PorReset => por_done = 1)

C2_Witness ==
    ticks = TickCap /\ por_done = 1 /\ rst_n = 0 /\ rst = 1

\* ---- C3 ----
\* C3: after a clock edge reset_timer.done is 1 exactly when that edge was
\* at least the t-th consecutive edge that sampled the button pressed; so
\* done is 0 after the first t - 1 edges of a hold, 1 after the t-th, and 0
\* again after any edge that samples the button released.
C3_WaitTimerDone ==
    [][ClkEdge => ((reset_timer_done' = 1) <=> (rst_n = 0 /\ held + 1 >= t))]_vars

C3_Witness ==
    t >= 2 /\ held = t /\ reset_timer_done = 1 /\ rst_n = 0

\* ---- C4 ----
\* C4: an edge that samples the button released reloads the timer with its
\* full duration whatever progress it had made, and a hold shorter than t
\* edges since that release never gives done = 1, however long the hold
\* before the release was.
C4_ContinuousHold ==
    [][ClkEdge => /\ (rst_n = 1 => count' = t /\ reset_timer_done' = 0)
                  /\ (held' < t => reset_timer_done' = 0)]_vars

C4_Witness ==
    prior /\ t > PriorHold /\ held = t - 1 /\ reset_timer_done = 0

\* ---- C5 ----
\* C5: the rst_n output pin is driven low exactly when the latest t or more
\* clock edges all sampled the button pressed.
C5_BoardReset ==
    (rst_n_pin = 0) <=> (held >= t)

C5_Witness ==
    rst_n_pin = 0 /\ held > t /\ rst_n = 0

\* ---- C7 ----
\* C7 as stated: after scenario B the four pll.reset samples are 1,1,1,0
\* and the rst_n output pin is asserted (low).
C7_Original ==
    ScenarioB => (Last4(pll_log) = <<1, 1, 1, 0>> /\ rst_n_pin = 0)

\* C7 amended: after scenario B the four pll.reset samples are 1,1,1,1 and
\* the rst_n output pin is asserted (low); after only three edges of the
\* hold it is not yet asserted.
C7_ScenarioB ==
    /\ ScenarioB => (Last4(pll_log) = <<1, 1, 1, 1>> /\ rst_n_pin = 0)
    /\ (t = 4 /\ held = 3 => rst_n_pin = 1)

C7_Witness ==
    ScenarioB /\ Last4(pll_log) = <<1, 1, 1, 1>> /\ rst_n_pin = 0

\* ---- C8 ----
\* C8: a clock edge decreases por_count by exactly 1 while it is non-zero
\* and leaves it at 0 once it is 0; no other step changes it; it never
\* leaves 0..2^12 - 1.
C8_PorCountdown ==
    [][/\ (ClkEdge => por_count' = IF por_count # 0 THEN por_count - 1 ELSE 0)
       /\ (~ClkEdge => por_count' = por_count)
       /\ por_count' <= por_count
       /\ por_count' \in 0..PorReset]_vars

C8_Witness ==
    por_count = 0 /\ ticks = TickCap /\ rst_n = 0 /\ rst = 1

\* ---- C9 ----
\* C9 as stated: whenever reset_timer.done is 1, pll.reset is 1.
C9_Original ==
    reset_timer_done = 1 => pll_reset = 1

\* C9 amended: whenever the button-hold timer is counting (wait = 1, the
\* button is pressed), pll.reset is 1; in particular pll.reset is 1 whenever
\* done is 1 and the button is still pressed.
C9_TimerCountingImpliesPllReset ==
    /\ (reset_timer_wait = 1 => pll_reset = 1)
    /\ (reset_timer_done = 1 /\ rst_n = 0 => pll_reset = 1)

C9_Witness ==
    reset_timer_done = 1 /\ rst_n = 0 /\ por_done = 1 /\ rst = 0 /\ pll_reset = 1

\* ---- C10 ----
\* C10: usb_pll.reset is 1 exactly while por_count is non-zero, and once it
\* is 0 no step (button, long hold, self.rst, clock edge) makes it 1 again.
C10_UsbPllReset ==
    [][/\ (usb_pll_reset = 0 => usb_pll_reset' = 0)
       /\ ((usb_pll_reset' = 1) <=> (por_count' # 0))]_vars

C10_Witness ==
    usb_pll_reset = 0 /\ pll_reset = 1 /\ reset_timer_done = 1 /\ rst = 1
====
